---- MODULE Spec2Model ----
(***************************************************************************)
(* Compressed debug-info streams of HotSpot (code/compressedStream.cpp):   *)
(* the growable write buffer, the typed writes layered on write_int, and   *)
(* the bit-packed ("sparse") write and read streams.                       *)
(*                                                                         *)
(* A juint is modelled as a function from bit number (0 = least            *)
(* significant) to {0,1}, so that shifts, masks and bit reversal keep the  *)
(* 32-bit width.  Bytes (u_char, uint8_t) are integers 0..255.             *)
(***************************************************************************)
EXTENDS Integers, Sequences, FiniteSets, TLC

----------------------------------------------------------------------------
(* Bit arithmetic on bytes and on 32-bit words.                            *)

Pow2(n) == 2 ^ n

\* x << n and x >> n on C ints (no truncation: the caller truncates).
Shl(x, n) == x * Pow2(n)
Shr(x, n) == x \div Pow2(n)

\* Conversion to u_char / uint8_t.
U8(x) == x % 256

RECURSIVE BitAnd(_, _)
BitAnd(a, b) ==
    IF a = 0 \/ b = 0 THEN 0
    ELSE (a % 2) * (b % 2) + 2 * BitAnd(a \div 2, b \div 2)

RECURSIVE BitOr(_, _)
BitOr(a, b) ==
    IF a = 0 THEN b
    ELSE IF b = 0 THEN a
    ELSE (IF a % 2 = 1 \/ b % 2 = 1 THEN 1 ELSE 0) + 2 * BitOr(a \div 2, b \div 2)

Bits32 == 0..31

\* The juint whose value is the small natural n (n < 2^31).
U32(n) == [i \in Bits32 |-> IF i < 31 THEN (n \div Pow2(i)) % 2 ELSE 0]

\* The juint with the 16-bit halves hi and lo.
U32HL(hi, lo) ==
    [i \in Bits32 |-> IF i < 16 THEN (lo \div Pow2(i)) % 2
                                ELSE (hi \div Pow2(i - 16)) % 2]

Zero32 == [i \in Bits32 |-> 0]
Ones32 == [i \in Bits32 |-> 1]

\* val >> n and val << n on uint32_t.
Shr32(val, n) == [i \in Bits32 |-> IF i + n <= 31 THEN val[i + n] ELSE 0]
Shl32(val, n) == [i \in Bits32 |-> IF i >= n THEN val[i - n] ELSE 0]
Or32(x, y) == [i \in Bits32 |-> IF x[i] = 1 \/ y[i] = 1 THEN 1 ELSE 0]

\* val & 0x3f as a small integer.
Low6(val) ==
    val[0] + 2 * val[1] + 4 * val[2] + 8 * val[3] + 16 * val[4] + 32 * val[5]

\* Number of significant bits of val (0 for zero).
BitLength(val) ==
    IF val = Zero32 THEN 0
    ELSE 1 + CHOOSE i \in Bits32 : val[i] = 1 /\ \A j \in Bits32 : j > i => val[j] = 0

----------------------------------------------------------------------------
(* CompressedWriteStream: the growable buffer.                             *)
(*                                                                         *)
(* A stream is a record.  buffer is the allocated array (C index i is      *)
(* buffer[i + 1]), size its capacity, position the logical length.        *)
(* curr_byte and byte_pos are the bit cursor of the sparse stream.        *)
(* A cell never stored to holds Uninit (NEW_RESOURCE_ARRAY does not clear).*)
(* glog and slog are history fields: the growths and the byte stores of    *)
(* the operation in progress, in order.                                    *)

Uninit == -1

MAX_LENGTH == 5

Core(s) ==
    [buffer |-> s.buffer, size |-> s.size, position |-> s.position,
     curr_byte |-> s.curr_byte, byte_pos |-> s.byte_pos]

\* CompressedWriteStream::CompressedWriteStream(int initial_size)
NewWriteStream(initial_size) ==
    [buffer |-> [i \in 1..initial_size |-> Uninit],
     size |-> initial_size, position |-> 0,
     curr_byte |-> 0, byte_pos |-> 0,
     glog |-> <<>>, slog |-> <<>>]

\* Start of an operation: the history of the previous one is dropped.
Begin(s) == [s EXCEPT !.glog = <<>>, !.slog = <<>>]

\* grow without the floor of 2 * min_expansion.
grow_no_floor(s) ==
    LET nsize == s.size * 2
        new_buffer == [i \in 1..nsize |->
                          IF i <= s.position /\ i <= s.size THEN s.buffer[i]
                          ELSE Uninit]
        t == [s EXCEPT !.buffer = new_buffer, !.size = nsize]
    IN  [t EXCEPT !.glog = Append(s.glog, [before |-> Core(s), after |-> Core(t)])]

\* grow whose memcpy copies _position - 1 bytes.
grow_short_copy(s) ==
    LET dbl == s.size * 2
        nsize == IF dbl < MAX_LENGTH * 2 THEN MAX_LENGTH * 2 ELSE dbl
        new_buffer == [i \in 1..nsize |->
                          IF i < s.position /\ i <= s.size THEN s.buffer[i]
                          ELSE Uninit]
        t == [s EXCEPT !.buffer = new_buffer, !.size = nsize]
    IN  [t EXCEPT !.glog = Append(s.glog, [before |-> Core(s), after |-> Core(t)])]

\* grow without the memcpy.
grow_no_copy(s) ==
    LET dbl == s.size * 2
        nsize == IF dbl < MAX_LENGTH * 2 THEN MAX_LENGTH * 2 ELSE dbl
        new_buffer == [i \in 1..nsize |-> Uninit]
        t == [s EXCEPT !.buffer = new_buffer, !.size = nsize]
    IN  [t EXCEPT !.glog = Append(s.glog, [before |-> Core(s), after |-> Core(t)])]

\* CompressedWriteStream::grow
grow(s) ==
    LET dbl == s.size * 2
        min_expansion == MAX_LENGTH
        nsize == IF dbl < min_expansion * 2 THEN min_expansion * 2 ELSE dbl
        new_buffer == [i \in 1..nsize |->
                          IF i <= s.position /\ i <= s.size THEN s.buffer[i]
                          ELSE Uninit]
        t == [s EXCEPT !.buffer = new_buffer, !.size = nsize]
    IN  [t EXCEPT !.glog = Append(s.glog, [before |-> Core(s), after |-> Core(t)])]

\* CompressedWriteStream::full
full(s) == s.position >= s.size

\* CompressedWriteStream::store: _buffer[_position++] = b
store(s, b) ==
    LET ev == [idx |-> s.position, byte |-> b, size |-> s.size] IN
    [s EXCEPT !.buffer = IF s.position < s.size
                         THEN [s.buffer EXCEPT ![s.position + 1] = b]
                         ELSE s.buffer,
              !.position = s.position + 1,
              !.slog = Append(s.slog, ev)]

\* CompressedWriteStream::write(u_char b)
write(s, b) == store(IF full(s) THEN grow(s) ELSE s, U8(b))

----------------------------------------------------------------------------
(* CompressedSparseDataWriteStream                                         *)

\* position() without the early return for an aligned stream.
position_always_flush(s) ==
    LET t == write(s, Shl(s.curr_byte, 8 - s.byte_pos))
    IN  [t EXCEPT !.curr_byte = 0, !.byte_pos = 0]

\* position() that flushes but leaves the bit offset as it was.
position_keeps_offset(s) ==
    IF s.byte_pos = 0 THEN s
    ELSE LET t == write(s, Shl(s.curr_byte, 8 - s.byte_pos))
         IN  [t EXCEPT !.curr_byte = 0]

\* position() that stores the pending byte without write()'s check for a
\* full buffer.
position_unchecked_store(s) ==
    IF s.byte_pos = 0 THEN s
    ELSE LET t == store(s, U8(Shl(s.curr_byte, 8 - s.byte_pos)))
         IN  [t EXCEPT !.curr_byte = 0, !.byte_pos = 0]

\* position() that stores the pending byte as it is, not shifted to the
\* top of the byte.
position_no_padding(s) ==
    IF s.byte_pos = 0 THEN s
    ELSE LET t == write(s, s.curr_byte)
         IN  [t EXCEPT !.curr_byte = 0, !.byte_pos = 0]

\* CompressedSparseDataWriteStream::position
position(s) ==
    IF s.byte_pos = 0 THEN s
    ELSE LET t == write(s, Shl(s.curr_byte, 8 - s.byte_pos))
         IN  [t EXCEPT !.curr_byte = 0, !.byte_pos = 0]

\* write_zero that shifts a 1 bit in.
write_zero_sets_bit(s) ==
    LET t == [s EXCEPT !.curr_byte = U8(Shl(s.curr_byte, 1) + 1),
                       !.byte_pos = s.byte_pos + 1]
    IN  IF t.byte_pos = 8
        THEN [write(t, t.curr_byte) EXCEPT !.curr_byte = 0, !.byte_pos = 0]
        ELSE t

\* write_zero that starts a new byte after the eighth bit without
\* storing the finished one.
write_zero_no_store(s) ==
    LET t == [s EXCEPT !.curr_byte = U8(Shl(s.curr_byte, 1)),
                       !.byte_pos = s.byte_pos + 1]
    IN  IF t.byte_pos = 8
        THEN [t EXCEPT !.curr_byte = 0, !.byte_pos = 0]
        ELSE t

\* CompressedSparseDataWriteStream::write_zero
write_zero(s) ==
    LET t == [s EXCEPT !.curr_byte = U8(Shl(s.curr_byte, 1)),
                       !.byte_pos = s.byte_pos + 1]
    IN  IF t.byte_pos = 8
        THEN [write(t, t.curr_byte) EXCEPT !.curr_byte = 0, !.byte_pos = 0]
        ELSE t

\* write_byte_impl that stores b >> byte_pos_ without the pending bits.
write_byte_impl_drops_pending(s, b) ==
    LET t == write(s, Shr(b, s.byte_pos))
    IN  [t EXCEPT !.curr_byte = U8(BitAnd(Shr(255, 8 - s.byte_pos), b))]

\* write_byte_impl that keeps the whole of b as the pending byte.
write_byte_impl_unmasked(s, b) ==
    LET t == write(s, BitOr(Shl(s.curr_byte, 8 - s.byte_pos), Shr(b, s.byte_pos)))
    IN  [t EXCEPT !.curr_byte = U8(b)]

\* CompressedSparseDataWriteStream::write_byte_impl
write_byte_impl(s, b) ==
    LET t == write(s, BitOr(Shl(s.curr_byte, 8 - s.byte_pos), Shr(b, s.byte_pos)))
    IN  [t EXCEPT !.curr_byte = U8(BitAnd(Shr(255, 8 - s.byte_pos), b))]

\* The loop of write_int, skipping every 6-bit group that is zero instead
\* of the leading ones only.
RECURSIVE write_int_loop_skips_zero_groups(_, _, _)
write_int_loop_skips_zero_groups(s, val, i) ==
    IF i > 0
    THEN LET v == Shr32(val, 6 * i)
             t == IF Low6(v) # 0 THEN write_byte_impl(s, BitOr(192, Low6(v))) ELSE s
         IN  write_int_loop_skips_zero_groups(t, val, i - 1)
    ELSE s

\* The loop of write_int: for (int i = 5; i > 0; i--)
RECURSIVE write_int_loop(_, _, _)
write_int_loop(s, val, i) ==
    IF i > 0
    THEN LET v == Shr32(val, 6 * i)
             t == IF v # Zero32 THEN write_byte_impl(s, BitOr(192, Low6(v))) ELSE s
         IN  write_int_loop(t, val, i - 1)
    ELSE s

\* write_int whose loop starts at i = 4: at most five units.
write_int_from4(s, val) ==
    IF val = Zero32 THEN write_zero(s)
    ELSE write_byte_impl(write_int_loop(s, val, 4), BitOr(128, Low6(val)))

\* write_int with the two markers exchanged.
write_int_swapped_markers(s, val) ==
    IF val = Zero32 THEN write_zero(s)
    ELSE IF Shr32(val, 6) = Zero32 THEN write_byte_impl(s, BitOr(192, Low6(val)))
    ELSE write_byte_impl(write_int_loop(s, val, 5), BitOr(128, Low6(val)))

\* CompressedSparseDataWriteStream::write_int
write_int(s, val) ==
    IF val = Zero32 THEN write_zero(s)
    ELSE write_byte_impl(write_int_loop(s, val, 5), BitOr(128, Low6(val)))

----------------------------------------------------------------------------
(* Typed writes layered on write_int (CompressedWriteStream::write_float,  *)
(* write_double, write_long).  A jfloat is modelled by its 32-bit pattern, *)
(* a jdouble or jlong by its 64-bit pattern (bit 0 = least significant).   *)

Bits64 == 0..63

\* reverse_bits(juint)
reverse_bits(x) == [i \in Bits32 |-> x[31 - i]]

\* low(jlong) and high(jlong): the two 32-bit halves.
low(value) == [i \in Bits32 |-> value[i]]
high(value) == [i \in Bits32 |-> value[i + 32]]

\* jlong_from(h, l)
jlong_from(h, l) == [i \in Bits64 |-> IF i < 32 THEN l[i] ELSE h[i - 32]]

\* UNSIGNED5::encode_sign: (value << 1) ^ (value >> 31), the shift arithmetic.
encode_sign(value) ==
    [i \in Bits32 |-> LET shifted == IF i = 0 THEN 0 ELSE value[i - 1]
                      IN  (shifted + value[31]) % 2]

\* UNSIGNED5::decode_sign: (value >> 1) ^ -(value & 1)
decode_sign(value) ==
    [i \in Bits32 |-> LET shifted == IF i = 31 THEN 0 ELSE value[i + 1]
                      IN  (shifted + value[0]) % 2]

\* write_signed_int(jint value): write_int(UNSIGNED5::encode_sign(value))
write_signed_int(s, value) == write_int(s, encode_sign(value))

\* write_float without the bit reversal.
write_float_unreversed(s, value) == write_int(s, value)

\* CompressedWriteStream::write_float
write_float(s, value) ==
    LET f == value
        rf == reverse_bits(f)
    IN  write_int(s, rf)

\* The assertion of write_float: f == reverse_bits(rf)
write_float_asserts(value) ==
    LET f == value
        rf == reverse_bits(f)
    IN  f = reverse_bits(rf)

\* write_double that writes the reversed low half first.
write_double_low_first(s, value) ==
    write_int(write_int(s, reverse_bits(low(value))), reverse_bits(high(value)))

\* CompressedWriteStream::write_double
write_double(s, value) ==
    LET h == high(value)
        l == low(value)
        rh == reverse_bits(h)
        rl == reverse_bits(l)
    IN  write_int(write_int(s, rh), rl)

\* The two assertions of write_double: h == reverse_bits(rh) and
\* l == reverse_bits(rl)
write_double_asserts(value) ==
    LET h == high(value)
        l == low(value)
        rh == reverse_bits(h)
        rl == reverse_bits(l)
    IN  h = reverse_bits(rh) /\ l = reverse_bits(rl)

\* write_long that writes the high half first.
write_long_high_first(s, value) ==
    write_signed_int(write_signed_int(s, high(value)), low(value))

\* CompressedWriteStream::write_long
write_long(s, value) ==
    write_signed_int(write_signed_int(s, low(value)), high(value))

\* roll_back(pos): the logical length becomes pos, nothing is deallocated,
\* and the writes that follow overwrite starting exactly at pos.  What
\* becomes of bits still pending in curr_byte is not told: they are either
\* flushed as position() flushes them (flush) or dropped, and in both cases
\* the stream is byte-aligned at pos afterwards.
roll_back(s, pos, flush) ==
    IF flush THEN [position(s) EXCEPT !.position = pos]
    ELSE [s EXCEPT !.position = pos, !.curr_byte = 0, !.byte_pos = 0]

----------------------------------------------------------------------------
(* CompressedSparseDataReadStream                                          *)
(*                                                                         *)
(* A read stream borrows buffer.  A cell never stored to, or behind the    *)
(* allocation, holds an unknown byte, any of the 256, the same at every    *)
(* access.  mem is what the stream has learnt of those cells: for each     *)
(* one it has read, the set of bytes the cell can hold given the bits the  *)
(* code has used of it.  Each operation therefore yields the set of its    *)
(* possible outcomes.  touched is a history field: the C indices of the    *)
(* buffer the stream has accessed; junk_units counts the units of the      *)
(* read_int in progress that started in a cell never stored to; halves is  *)
(* what a caller that reads a long by two read_signed_int calls has got    *)
(* from the first of them.                                                 *)

\* What a cell never stored to may hold.
Junk == 0..255

\* How many units that start in a cell never stored to the model follows
\* one read_int through.
MaxJunkUnits == 1

\* CompressedSparseDataReadStream(const u_char* buffer, int position)
NewReadStream(buffer, pos) ==
    [buffer |-> buffer, position |-> pos, byte_pos |-> 0,
     mem |-> <<>>, touched |-> {}, units |-> 0, junk_units |-> 0,
     halves |-> <<>>]

Touch(r, idx) == [r EXCEPT !.touched = r.touched \cup {idx}]

\* Whether cell idx of the buffer was stored to by the writer.
Stored(r, idx) == idx + 1 \in DOMAIN r.buffer /\ r.buffer[idx + 1] # Uninit

\* The bytes cell idx can hold.
Cell(r, idx) ==
    IF Stored(r, idx) THEN {r.buffer[idx + 1]}
    ELSE IF idx \in DOMAIN r.mem THEN r.mem[idx]
    ELSE Junk

\* use[_buffer[idx]], where use maps a byte to the value of the expression
\* the code puts _buffer[idx] in: the set of [val, st], a value the
\* expression can have and the stream that has seen it.
Fetch(r, idx, use) ==
    {[val |-> w,
      st  |-> IF Stored(r, idx) THEN Touch(r, idx)
              ELSE [Touch(r, idx) EXCEPT
                       !.mem = (idx :> {v \in Cell(r, idx) : use[v] = w}) @@ r.mem]] :
        w \in {use[v] : v \in Cell(r, idx)}}

\* read_zero that does not move to the next byte after bit 7.
read_zero_no_wrap(r) ==
    {IF f.val # 0
     THEN [ret |-> FALSE, st |-> f.st]
     ELSE [ret |-> TRUE,
           st  |-> IF r.byte_pos + 1 = 8
                   THEN [f.st EXCEPT !.byte_pos = 0]
                   ELSE [f.st EXCEPT !.byte_pos = r.byte_pos + 1]] :
        f \in Fetch(r, r.position, [x \in Junk |-> BitAnd(x, Shl(1, 7 - r.byte_pos))])}

\* CompressedSparseDataReadStream::read_zero; the set of [ret, st]
read_zero(r) ==
    {IF f.val # 0
     THEN [ret |-> FALSE, st |-> f.st]
     ELSE [ret |-> TRUE,
           st  |-> IF r.byte_pos + 1 = 8
                   THEN [f.st EXCEPT !.position = r.position + 1, !.byte_pos = 0]
                   ELSE [f.st EXCEPT !.byte_pos = r.byte_pos + 1]] :
        f \in Fetch(r, r.position, [x \in Junk |-> BitAnd(x, Shl(1, 7 - r.byte_pos))])}

\* read_byte_impl with _position++ for ++_position: both halves come from
\* the same byte.
read_byte_impl_same_byte(r) ==
    UNION {{LET b1 == f1.val
                b2 == f2.val
            IN  [ret |-> BitOr(b1, b2),
                 st  |-> [f2.st EXCEPT !.position = r.position + 1,
                                       !.units = r.units + 1]] :
               f2 \in Fetch(f1.st, r.position,
                            [x \in Junk |-> U8(Shr(x, 8 - r.byte_pos))])} :
           f1 \in Fetch(r, r.position, [x \in Junk |-> U8(Shl(x, r.byte_pos))])}

\* CompressedSparseDataReadStream::read_byte_impl; the set of [ret, st].
\* b1 comes from _buffer[_position], b2 from _buffer[++_position].
read_byte_impl(r) ==
    UNION {{LET b1 == f1.val
                b2 == f2.val
            IN  [ret |-> BitOr(b1, b2),
                 st  |-> [f2.st EXCEPT !.position = r.position + 1,
                                       !.units = r.units + 1]] :
               f2 \in Fetch(f1.st, r.position + 1,
                            [x \in Junk |-> U8(Shr(x, 8 - r.byte_pos))])} :
           f1 \in Fetch(r, r.position, [x \in Junk |-> U8(Shl(x, r.byte_pos))])}

\* The loop of read_int, stopping at a unit with marker 11 instead of 10.
RECURSIVE read_int_loop_stops_at_11(_, _)
read_int_loop_stops_at_11(r, result) ==
    IF ~Stored(r, r.position) /\ r.junk_units >= MaxJunkUnits
    THEN {[ret |-> Zero32, st |-> r, ran_off |-> TRUE]}
    ELSE UNION {LET b == rb.ret
                    res == Or32(Shl32(result, 6), U32(BitAnd(b, 63)))
                    st == IF Stored(r, r.position) THEN rb.st
                          ELSE [rb.st EXCEPT !.junk_units = r.junk_units + 1]
                IN  IF BitAnd(b, 192) = 192
                    THEN {[ret |-> res, st |-> st, ran_off |-> FALSE]}
                    ELSE read_int_loop_stops_at_11(st, res) :
                   rb \in read_byte_impl(r)}

\* The loop of read_int; the set of [ret, st, ran_off].  The loop runs until
\* it meets a final unit, through whatever memory it finds.  The model
\* follows it through MaxJunkUnits units that start in a cell never stored
\* to; when none of them is final, ran_off is TRUE, ret is Zero32 and what
\* the call does further on is left open.
RECURSIVE read_int_loop(_, _)
read_int_loop(r, result) ==
    IF ~Stored(r, r.position) /\ r.junk_units >= MaxJunkUnits
    THEN {[ret |-> Zero32, st |-> r, ran_off |-> TRUE]}
    ELSE UNION {LET b == rb.ret
                    res == Or32(Shl32(result, 6), U32(BitAnd(b, 63)))
                    st == IF Stored(r, r.position) THEN rb.st
                          ELSE [rb.st EXCEPT !.junk_units = r.junk_units + 1]
                IN  IF BitAnd(b, 192) = 128
                    THEN {[ret |-> res, st |-> st, ran_off |-> FALSE]}
                    ELSE read_int_loop(st, res) :
                   rb \in read_byte_impl(r)}

\* CompressedSparseDataReadStream::read_int; the set of [ret, st, ran_off]
read_int(r) ==
    UNION {IF z.ret THEN {[ret |-> Zero32, st |-> z.st, ran_off |-> FALSE]}
           ELSE read_int_loop(z.st, Zero32) :
              z \in read_zero([r EXCEPT !.units = 0, !.junk_units = 0])}

----------------------------------------------------------------------------
(* Typed reads layered on read_int (CompressedReadStream::read_signed_int, *)
(* read_float, read_double, read_long).  Each yields the set of its        *)
(* outcomes [ret, st, ran_off, raw]: raw is a history field, the juints    *)
(* its read_int calls returned, in order.                                  *)

\* CompressedReadStream::read_signed_int
read_signed_int(r) ==
    {[ret |-> decode_sign(x.ret), st |-> x.st, ran_off |-> x.ran_off,
      raw |-> <<x.ret>>] : x \in read_int(r)}

\* CompressedReadStream::read_float
read_float(r) ==
    {LET rf == x.ret
         f == reverse_bits(rf)
     IN  [ret |-> f, st |-> x.st, ran_off |-> x.ran_off, raw |-> <<rf>>] :
        x \in read_int(r)}

\* CompressedReadStream::read_double
read_double(r) ==
    UNION {{LET rh == x.ret
                rl == y.ret
                h == reverse_bits(rh)
                l == reverse_bits(rl)
            IN  [ret |-> jlong_from(h, l), st |-> y.st,
                 ran_off |-> x.ran_off \/ y.ran_off, raw |-> <<rh, rl>>] :
               y \in read_int(x.st)} :
           x \in read_int(r)}

\* CompressedReadStream::read_long
read_long(r) ==
    UNION {{LET low_ == x.ret
                high_ == y.ret
            IN  [ret |-> jlong_from(high_, low_), st |-> y.st,
                 ran_off |-> x.ran_off \/ y.ran_off, raw |-> x.raw \o y.raw] :
               y \in read_signed_int(x.st)} :
           x \in read_signed_int(r)}

----------------------------------------------------------------------------
(* The state machine.                                                      *)
(*                                                                         *)
(* out is the write stream under test, ref a second write stream that      *)
(* receives the same calls but whose capacity is never exhausted.  rd is   *)
(* a read stream over out's buffer.  wrote and got are the values written  *)
(* and read back so far.  last describes the latest call on out (its name, *)
(* its arguments, the stream before it) and prev the call before that      *)
(* (its name, its arguments, the bit offset it started at).                *)

VARIABLES out, ref, rd, wrote, got, phase, nops, last, prev

vars == <<out, ref, rd, wrote, got, phase, nops, last, prev>>

\* Bounds of the model.
MaxOps == 3
MaxZeros == 8
MaxNonZero == 1
RefSize == 64
RTInitialSize == 4

\* Initial capacities of the stream under test.
InitSizes == {0, 5, 6, 12}

\* Inputs of write_int in the writer specification: 0, 1, 0xFF, 0xFFFF,
\* 0xFFFFFFFF.
IntVals == {Zero32, U32(1), U32(255), U32(65535), Ones32}

\* Bit patterns of the jfloat, jdouble and jlong inputs: 1.0f; a NaN with
\* every bit set; 0x8000000080000000.
FloatVals == {U32HL(16256, 0)}
DoubleVals == {jlong_from(Ones32, Ones32)}
LongVals == {jlong_from(U32HL(32768, 0), U32HL(32768, 0))}

\* Input of write_signed_int in the writer specification: min_jint, whose
\* encode_sign is 0xFFFFFFFF.
SignedVals == {U32HL(32768, 0)}

\* Inputs of write_int in the round-trip specification: 1, 0xFF, 0x1000,
\* 0xFFFF, 0xFFFFFFFF, and zero.
RTNonZero == {U32(1), U32(255), U32(4096), U32(65535), Ones32}

NoReader == NewReadStream(<<>>, 0)

\* A call on out: op is its name, arg its integer argument, val its juint
\* argument, o2 the stream it leaves.
Call(op, arg, val, o2) ==
    /\ out' = o2
    /\ last' = [op |-> op, arg |-> arg, val |-> val, pre |-> Core(out)]
    /\ prev' = [op |-> last.op, arg |-> last.arg, val |-> last.val,
                 byte_pos |-> last.pre.byte_pos]
    /\ nops' = nops + 1

\* out.write_int(v)
WriteInt(v) == Call("write_int", 0, v, write_int(Begin(out), v))

\* out.write_float(f)
WriteFloat(f) == Call("write_float", 0, f, write_float(Begin(out), f))

\* out.write_signed_int(v)
WriteSignedInt(v) == Call("write_signed_int", 0, v, write_signed_int(Begin(out), v))

\* out.write_double(d)
WriteDouble(d) == Call("write_double", 0, high(d), write_double(Begin(out), d))

\* out.write_long(l)
WriteLong(l) == Call("write_long", 0, high(l), write_long(Begin(out), l))

\* out.position() / out.align()
Align == Call("position", 0, Zero32, position(Begin(out)))

\* out.roll_back(p)
RollBack(p, flush) ==
    Call("roll_back", p, Zero32, roll_back(Begin(out), p, flush))

\* Places a caller rolls back to: the start, the last byte of the
\* allocation, its end.
RollBackTargets == {0, out.size - 1, out.size} \cap (0..out.size)

InitCommon ==
    /\ ref = NewWriteStream(RefSize)
    /\ rd = NoReader
    /\ wrote = <<>>
    /\ got = <<>>
    /\ phase = "write"
    /\ nops = 0
    /\ prev = [op |-> "none", arg |-> 0, val |-> Zero32, byte_pos |-> 0]

New(c) == [op |-> "new", arg |-> c, val |-> Zero32, pre |-> Core(NewWriteStream(c))]

\* Writer specification: any initial capacity, any calls; ref receives
\* the same calls as out.
Init ==
    /\ \E c \in InitSizes : out = NewWriteStream(c) /\ last = New(c)
    /\ InitCommon

WInt ==
    \E v \in IntVals :
        /\ nops < MaxOps
        /\ WriteInt(v)
        /\ ref' = write_int(Begin(ref), v)
        /\ UNCHANGED <<rd, wrote, got, phase>>

WSignedInt ==
    \E v \in SignedVals :
        /\ nops < MaxOps
        /\ WriteSignedInt(v)
        /\ ref' = write_signed_int(Begin(ref), v)
        /\ UNCHANGED <<rd, wrote, got, phase>>

WFloat ==
    \E f \in FloatVals :
        /\ nops < MaxOps
        /\ WriteFloat(f)
        /\ ref' = write_float(Begin(ref), f)
        /\ UNCHANGED <<rd, wrote, got, phase>>

WDouble ==
    \E d \in DoubleVals :
        /\ nops < MaxOps
        /\ WriteDouble(d)
        /\ ref' = write_double(Begin(ref), d)
        /\ UNCHANGED <<rd, wrote, got, phase>>

WLong ==
    \E l \in LongVals :
        /\ nops < MaxOps
        /\ WriteLong(l)
        /\ ref' = write_long(Begin(ref), l)
        /\ UNCHANGED <<rd, wrote, got, phase>>

WAlign ==
    /\ nops < MaxOps
    /\ Align
    /\ ref' = position(Begin(ref))
    /\ UNCHANGED <<rd, wrote, got, phase>>

WRollBack ==
    \E p \in RollBackTargets, flush \in BOOLEAN :
        /\ nops < MaxOps
        /\ RollBack(p, flush)
        /\ ref' = roll_back(Begin(ref), p, flush)
        /\ UNCHANGED <<rd, wrote, got, phase>>

Next == WInt \/ WSignedInt \/ WFloat \/ WDouble \/ WLong \/ WAlign \/ WRollBack

Spec == Init /\ [][Next]_vars

\* Round-trip specification: values are written to a fresh stream, the
\* stream is aligned, and a read stream over the buffer reads them back.
InitRT ==
    /\ out = NewWriteStream(RTInitialSize)
    /\ last = New(RTInitialSize)
    /\ InitCommon

Count(seq, P(_)) == Cardinality({i \in DOMAIN seq : P(seq[i].v)})
IsZero(v) == v = Zero32
IsNonZero(v) == v # Zero32

\* What the round trip remembers of a written value: the value, the
\* number of bytes stored for it, and the write cursor after it.
Written(v, o2) ==
    [v |-> v, units |-> Len(o2.slog),
     position |-> o2.position, byte_pos |-> o2.byte_pos]

RTWriteZero ==
    /\ phase = "write"
    /\ Count(wrote, IsZero) < MaxZeros
    /\ WriteInt(Zero32)
    /\ wrote' = Append(wrote, Written(Zero32, out'))
    /\ UNCHANGED <<ref, rd, got, phase>>

RTWriteInt ==
    \E v \in RTNonZero :
        /\ phase = "write"
        /\ Count(wrote, IsNonZero) < MaxNonZero
        /\ WriteInt(v)
        /\ wrote' = Append(wrote, Written(v, out'))
        /\ UNCHANGED <<ref, rd, got, phase>>

RTAlign ==
    /\ phase = "write"
    /\ Align
    /\ phase' = "aligned"
    /\ UNCHANGED <<ref, rd, wrote, got>>

\* CompressedSparseDataReadStream in(out.buffer(), 0)
RTOpen ==
    /\ phase = "aligned"
    /\ rd' = NewReadStream(out.buffer, 0)
    /\ phase' = "read"
    /\ UNCHANGED <<out, ref, wrote, got, nops, last, prev>>

\* in.read_int()
RTReadInt ==
    /\ phase = "read"
    /\ Len(got) < Len(wrote)
    /\ \E r \in read_int(rd) :
          /\ rd' = r.st
          /\ got' = Append(got, [v |-> r.ret, ran_off |-> r.ran_off,
                                 units |-> r.st.units,
                                 position |-> r.st.position,
                                 byte_pos |-> r.st.byte_pos])
    /\ UNCHANGED <<out, ref, wrote, nops, last, prev, phase>>

NextRT == RTWriteZero \/ RTWriteInt \/ RTAlign \/ RTOpen \/ RTReadInt

SpecRT == InitRT /\ [][NextRT]_vars

\* Encoding specification: one non-zero value among zeros is written to a
\* fresh stream, and the stream is aligned.  EncVals covers every unit
\* count and zero 6-bit groups below the highest one: 1, 2, 0x20, 0x3F,
\* 0x40, 0xFF, 0xFFF, 0x1000, 0xFFFF, 0x3F03F, 2^18, 2^24, 0x3FFFFFFF, 2^30,
\* 2^31, 0xFFFFFFFF.
EncVals ==
    {U32(1), U32(2), U32(32), U32(63), U32(64), U32(255), U32(4095),
     U32(4096), U32(65535), U32(258111), U32HL(4, 0), U32HL(256, 0),
     U32HL(16383, 65535), U32HL(16384, 0), U32HL(32768, 0), Ones32}

EncWriteInt ==
    \E v \in EncVals :
        /\ phase = "write"
        /\ Count(wrote, IsNonZero) < MaxNonZero
        /\ WriteInt(v)
        /\ wrote' = Append(wrote, Written(v, out'))
        /\ UNCHANGED <<ref, rd, got, phase>>

NextEnc == RTWriteZero \/ EncWriteInt \/ RTAlign

SpecEnc == InitRT /\ [][NextEnc]_vars

\* Bit-cursor specification: zeros, a two-unit value and position() in any
\* order on a fresh stream, long enough for a run of eight zero bits.
MaxCursorOps == 8

\* Inputs of write_int in the bit-cursor specification: 0 and 0xFF.
CursorVals == {Zero32, U32(255)}

CurWriteInt ==
    \E v \in CursorVals :
        /\ nops < MaxCursorOps
        /\ WriteInt(v)
        /\ UNCHANGED <<ref, rd, wrote, got, phase>>

CurAlign ==
    /\ nops < MaxCursorOps
    /\ Align
    /\ UNCHANGED <<ref, rd, wrote, got, phase>>

NextCursor == CurWriteInt \/ CurAlign

SpecCursor == InitRT /\ [][NextCursor]_vars

\* Typed round-trip specification: floats, doubles and longs are written
\* to a fresh stream, the stream is aligned, and a read stream reads them
\* back with the read of the same type.
MaxTyped == 2

\* Bit patterns of the jfloat inputs: +0.0f, -0.0f, 1.0f, +infinity, a NaN
\* with every bit set, the smallest subnormal.
TFloatVals ==
    {Zero32, U32HL(32768, 0), U32HL(16256, 0), U32HL(32640, 0), Ones32, U32(1)}

\* Bit patterns of the jdouble inputs: 1.0, 1.0 + 2^-52, a NaN with every
\* bit set, -0.0, 0x0000000080000000.
TDoubleVals ==
    {jlong_from(U32HL(16368, 0), Zero32), jlong_from(U32HL(16368, 0), U32(1)),
     jlong_from(Ones32, Ones32), jlong_from(U32HL(32768, 0), Zero32),
     jlong_from(Zero32, U32HL(32768, 0))}

\* The jint inputs of write_signed_int: 1, -1, min_jint, max_jint.
TSignedVals == {U32(1), Ones32, U32HL(32768, 0), U32HL(32767, 65535)}

\* The jlong inputs: 0, -1, 0x0000000080000000, 0x00000001FFFFFFFF,
\* min_jlong, max_jlong.
TLongVals ==
    {jlong_from(Zero32, Zero32), jlong_from(Ones32, Ones32),
     jlong_from(Zero32, U32HL(32768, 0)), jlong_from(U32(1), Ones32),
     jlong_from(U32HL(32768, 0), Zero32), jlong_from(U32HL(32767, 65535), Ones32)}

\* What the typed round trip remembers of a written value: its type, its
\* bit pattern, whether the assertions of the write held, and the write
\* cursor after it.
TypedWritten(type, v, ok, o2) ==
    [type |-> type, v |-> v, ok |-> ok,
     position |-> o2.position, byte_pos |-> o2.byte_pos]

TWriteSignedInt ==
    \E v \in TSignedVals :
        /\ phase = "write"
        /\ Len(wrote) < MaxTyped
        /\ WriteSignedInt(v)
        /\ wrote' = Append(wrote, TypedWritten("signed", v, TRUE, out'))
        /\ UNCHANGED <<ref, rd, got, phase>>

TWriteFloat ==
    \E f \in TFloatVals :
        /\ phase = "write"
        /\ Len(wrote) < MaxTyped
        /\ WriteFloat(f)
        /\ wrote' = Append(wrote, TypedWritten("float", f, write_float_asserts(f), out'))
        /\ UNCHANGED <<ref, rd, got, phase>>

TWriteDouble ==
    \E d \in TDoubleVals :
        /\ phase = "write"
        /\ Len(wrote) < MaxTyped
        /\ WriteDouble(d)
        /\ wrote' = Append(wrote, TypedWritten("double", d, write_double_asserts(d), out'))
        /\ UNCHANGED <<ref, rd, got, phase>>

TWriteLong ==
    \E l \in TLongVals :
        /\ phase = "write"
        /\ Len(wrote) < MaxTyped
        /\ WriteLong(l)
        /\ wrote' = Append(wrote, TypedWritten("long", l, TRUE, out'))
        /\ UNCHANGED <<ref, rd, got, phase>>

\* The type of the value the reader is at.
NextType == IF Len(got) < Len(wrote) THEN wrote[Len(got) + 1].type ELSE "none"

\* A typed read r of in by the call op: rd and got after it.
TypedRead(op, r) ==
    /\ rd' = r.st
    /\ got' = Append(got, [op |-> op, v |-> r.ret, ran_off |-> r.ran_off,
                           raw |-> r.raw,
                           position |-> r.st.position,
                           byte_pos |-> r.st.byte_pos])
    /\ UNCHANGED <<out, ref, wrote, nops, last, prev, phase>>

\* in.read_signed_int() as one of the two calls of a caller that reads a
\* long half by half: the first call leaves the reader between the halves
\* (rd.halves holds its result), the second completes the value as
\* jlong_from(high, low).
HalfRead(r) ==
    IF rd.halves = <<>>
    THEN /\ rd' = [r.st EXCEPT !.halves =
                        <<[ret |-> r.ret, ran_off |-> r.ran_off, raw |-> r.raw]>>]
         /\ UNCHANGED <<out, ref, wrote, got, nops, last, prev, phase>>
    ELSE LET lo == rd.halves[1]
         IN TypedRead("read_signed_int",
                      [ret |-> jlong_from(r.ret, lo.ret),
                       st |-> [r.st EXCEPT !.halves = <<>>],
                       ran_off |-> lo.ran_off \/ r.ran_off,
                       raw |-> lo.raw \o r.raw])

\* in.read_signed_int()
TReadSignedInt ==
    /\ phase = "read"
    /\ NextType \in {"signed", "long"}
    /\ \E r \in read_signed_int(rd) :
          IF NextType = "signed" THEN TypedRead("read_signed_int", r)
          ELSE HalfRead(r)

\* in.read_float()
TReadFloat ==
    /\ phase = "read"
    /\ NextType = "float"
    /\ \E r \in read_float(rd) : TypedRead("read_float", r)

\* in.read_double()
TReadDouble ==
    /\ phase = "read"
    /\ NextType = "double"
    /\ \E r \in read_double(rd) : TypedRead("read_double", r)

\* in.read_long()
TReadLong ==
    /\ phase = "read"
    /\ NextType = "long"
    /\ rd.halves = <<>>
    /\ \E r \in read_long(rd) : TypedRead("read_long", r)

NextTyped ==
    \/ TWriteSignedInt \/ TWriteFloat \/ TWriteDouble \/ TWriteLong
    \/ RTAlign \/ RTOpen
    \/ TReadSignedInt \/ TReadFloat \/ TReadDouble \/ TReadLong

SpecTyped == InitRT /\ [][NextTyped]_vars

----------------------------------------------------------------------------
(* Round trip and encodings of the bit-packed stream (SpecRT).             *)

\* C index i of the written part of out's buffer.
Byte(i) == out.buffer[i + 1]

Max(a, b) == IF a >= b THEN a ELSE b

\* C1: every value read back by the k-th read_int over the aligned buffer
\* is the k-th value written, whatever bit offset it started at.
C1_RoundTrip ==
    \A k \in DOMAIN got : got[k].v = wrote[k].v /\ ~got[k].ran_off

\* Bit offset at which the k-th written value starts.
StartBit(k) == IF k = 1 THEN 0 ELSE wrote[k - 1].byte_pos

\* All values read back, among them 0xFFFFFFFF written at bit offset 7
\* and followed by another value.
C1_Witness ==
    /\ phase = "read"
    /\ Len(got) = Len(wrote)
    /\ \E k \in DOMAIN wrote :
          /\ wrote[k].v = Ones32
          /\ StartBit(k) = 7
          /\ k < Len(wrote)

\* C2: write_int(0xFFFFFFFF) on a fresh stream, then align, leaves
\* position 5 and the bytes FF FF FF FF 1F.
C2_AllOnesEncoding ==
    (phase = "aligned" /\ Len(wrote) = 1 /\ wrote[1].v = Ones32)
        => /\ out.position = 5
           /\ \A i \in 0..3 : Byte(i) = 255
           /\ Byte(4) = 31

\* C3: write_int(0xFF) then align leaves the bytes FF 03, and
\* write_int(0xFFFF) then align leaves the bytes FF FF 07.
C3_ByteAndShortEncoding ==
    /\ (phase = "aligned" /\ Len(wrote) = 1 /\ wrote[1].v = U32(255))
           => (out.position = 2 /\ Byte(0) = 255 /\ Byte(1) = 3)
    /\ (phase = "aligned" /\ Len(wrote) = 1 /\ wrote[1].v = U32(65535))
           => (out.position = 3 /\ Byte(0) = 255 /\ Byte(1) = 255 /\ Byte(2) = 7)

\* Position of the write stream before the k-th value was written.
StartPosition(k) == IF k = 1 THEN 0 ELSE wrote[k - 1].position

\* C4: a non-zero value takes between 1 and 6 units, the position advances
\* by that many bytes, and the value read back from them is the value
\* written, 0xFFFFFFFF included.
C4_AtMostSixUnits ==
    \A k \in DOMAIN wrote :
        wrote[k].v # Zero32 =>
            /\ wrote[k].units \in 1..6
            /\ wrote[k].position - StartPosition(k) = wrote[k].units
            /\ k \in DOMAIN got =>
                  (got[k].v = wrote[k].v /\ got[k].units = wrote[k].units)

\* 0xFFFFFFFF was written as 6 units at a non-zero bit offset and read back.
C4_Witness ==
    \E k \in DOMAIN got :
        /\ wrote[k].v = Ones32
        /\ wrote[k].units = 6
        /\ StartBit(k) # 0
        /\ got[k].v = Ones32

\* C5: N zeros written to a fresh stream and aligned occupy ceil(N/8)
\* bytes, all of them 0x00.
C5_ZeroRun ==
    (phase = "aligned" /\ \A k \in DOMAIN wrote : wrote[k].v = Zero32)
        => /\ out.position = (Len(wrote) + 7) \div 8
           /\ \A i \in 0..(out.position - 1) : Byte(i) = 0

\* Eight zeros, aligned: one byte.
C5_Witness ==
    /\ phase = "aligned"
    /\ Len(wrote) = 8
    /\ \A k \in DOMAIN wrote : wrote[k].v = Zero32
    /\ out.position = 1

----------------------------------------------------------------------------
(* Growth, roll back and position() of the write stream (Spec).            *)

ScalarWrites ==
    {"write_int", "write_signed_int", "write_float", "write_double", "write_long"}

\* Bytes the largest value of a call can take: one juint is at most 6
\* units, write_double and write_long write two.
WidestWrite(op) ==
    IF op \in {"write_int", "write_signed_int", "write_float"} THEN 6 ELSE 12

\* C6 as stated: a scalar write that grows the buffer grows it exactly once.
C6_ExactlyOneGrowth ==
    (last.op \in ScalarWrites /\ out.glog # <<>>) => Len(out.glog) = 1

\* C6, amended: a scalar write grows the buffer at most twice, and at most
\* once when the capacity before it is at least the width of its widest
\* value (6 bytes for write_int and write_float, 12 for write_double and
\* write_long).
C6_GrowthPerWrite ==
    last.op \in ScalarWrites =>
        /\ Len(out.glog) <= 2
        /\ last.pre.size >= WidestWrite(last.op) => Len(out.glog) <= 1

\* write_double at the end of a capacity of 12 grew the buffer once.
C6_Witness ==
    /\ last.op = "write_double"
    /\ last.pre.size = 12
    /\ last.pre.position >= 11
    /\ Len(out.glog) = 1

\* C7: every growth makes the capacity max(2 * old, 2 * MAX_LENGTH), which
\* is at least twice and strictly more than the old one, keeps the bytes
\* below position, and keeps position, pending byte and bit offset.
C7_Growth ==
    \A k \in DOMAIN out.glog :
        LET b == out.glog[k].before
            a == out.glog[k].after
        IN  /\ a.size = Max(2 * b.size, 2 * MAX_LENGTH)
            /\ a.size >= 2 * b.size
            /\ a.size > b.size
            /\ Len(a.buffer) = a.size
            /\ \A i \in 1..b.position : a.buffer[i] = b.buffer[i]
            /\ a.position = b.position
            /\ a.curr_byte = b.curr_byte
            /\ a.byte_pos = b.byte_pos

\* One call grew the buffer from capacity 0 and again from a full buffer
\* of written bytes.
C7_Witness ==
    /\ Len(out.glog) = 2
    /\ out.glog[1].before.size = 0
    /\ out.glog[2].before.position = 10
    /\ \A i \in 1..10 : out.glog[2].before.buffer[i] \in 0..255

\* C8: the stream that grows and the stream that never needs to hold the
\* same position, the same bytes below it and the same pending bits.
C8_SameAsUngrown ==
    ref.size = RefSize =>
        /\ out.position = ref.position
        /\ \A i \in 1..out.position : out.buffer[i] = ref.buffer[i]
        /\ out.curr_byte = ref.curr_byte
        /\ out.byte_pos = ref.byte_pos

\* The analogue of check_buffer_grow: write_int(1) after a pending zero bit
\* at the very end of the allocation grew the buffer.
C8_Witness ==
    /\ ref.size = RefSize
    /\ last.op = "write_int"
    /\ last.val = U32(1)
    /\ Len(out.glog) = 1
    /\ out.glog[1].before.byte_pos = 1
    /\ out.glog[1].before.position > 0
    /\ out.position = last.pre.position + 1

IsWrite(op) == op \in ScalarWrites

\* The first unit write_int emits for a non-zero value: marker 11 and the
\* highest non-zero 6-bit group, or marker 10 and the value when it fits
\* in 6 bits.
FirstUnit(val) ==
    LET n == (BitLength(val) + 5) \div 6 IN
    IF n = 1 THEN 128 + Low6(val)
    ELSE 192 + Low6(Shr32(val, 6 * (n - 1)))

C10_PositionIdempotent ==
    (prev.op = "position" /\ last.op = "position") =>
        /\ Core(out) = last.pre
        /\ out.slog = <<>>
        /\ out.glog = <<>>

\* The first of the two calls flushed a partial byte.
C10_Witness ==
    /\ prev.op = "position"
    /\ prev.byte_pos > 0
    /\ last.op = "position"

----------------------------------------------------------------------------
(* Typed round trips (SpecTyped).                                          *)

\* Bit offset at which the k-th typed value starts.
TypedStartBit(k) == IF k = 1 THEN 0 ELSE wrote[k - 1].byte_pos

\* C11: a long written by write_long is read back by read_long exactly;
\* the stream holds encode_sign(low half) and then encode_sign(high half),
\* and read_long reads them in that order, also when the low half has its
\* top bit set.
C11_LongRoundTrip ==
    \A k \in DOMAIN got :
        (wrote[k].type = "long" /\ got[k].op = "read_long") =>
            /\ got[k].v = wrote[k].v
            /\ ~got[k].ran_off
            /\ got[k].raw = <<encode_sign(low(wrote[k].v)),
                              encode_sign(high(wrote[k].v))>>

\* 0x0000000080000000, whose low half has the top bit set and whose high
\* half is zero, was written at a non-zero bit offset and read back.
C11_Witness ==
    \E k \in DOMAIN got :
        /\ wrote[k].type = "long"
        /\ got[k].op = "read_long"
        /\ wrote[k].v = jlong_from(Zero32, U32HL(32768, 0))
        /\ TypedStartBit(k) # 0
        /\ got[k].v = jlong_from(Zero32, U32HL(32768, 0))

\* C12: a double written by write_double is read back by read_double with
\* exactly its 64-bit pattern; the stream holds the bit-reversed high half
\* and then the bit-reversed low half, and read_double reads them in that
\* order and joins them high:low.
C12_DoubleRoundTrip ==
    \A k \in DOMAIN got :
        wrote[k].type = "double" =>
            /\ got[k].v = wrote[k].v
            /\ ~got[k].ran_off
            /\ got[k].raw = <<reverse_bits(high(wrote[k].v)),
                              reverse_bits(low(wrote[k].v))>>
            /\ high(got[k].v) = high(wrote[k].v)
            /\ low(got[k].v) = low(wrote[k].v)

\* 1.0 + 2^-52, whose halves 0x3FF00000 and 0x00000001 differ, was written
\* at a non-zero bit offset and read back.
C12_Witness ==
    \E k \in DOMAIN got :
        /\ wrote[k].type = "double"
        /\ wrote[k].v = jlong_from(U32HL(16368, 0), U32(1))
        /\ TypedStartBit(k) # 0
        /\ got[k].v = jlong_from(U32HL(16368, 0), U32(1))

\* C13: a float written by write_float is read back by read_float with
\* exactly its 32-bit pattern, and the assertion of write_float and the
\* two assertions of write_double hold for every value written.
C13_FloatRoundTrip ==
    /\ \A k \in DOMAIN got :
           wrote[k].type = "float" =>
               /\ got[k].v = wrote[k].v
               /\ ~got[k].ran_off
               /\ got[k].raw = <<reverse_bits(wrote[k].v)>>
    /\ \A k \in DOMAIN wrote :
           wrote[k].type \in {"float", "double"} => wrote[k].ok

\* The NaN with every bit set and -0.0f, one after the other, were read
\* back.
C13_Witness ==
    /\ Len(got) = 2
    /\ wrote[1].type = "float" /\ wrote[1].v = Ones32
    /\ wrote[2].type = "float" /\ wrote[2].v = U32HL(32768, 0)
    /\ got[1].v = Ones32
    /\ got[2].v = U32HL(32768, 0)

----------------------------------------------------------------------------
(* The bit stream of the bit-packed writer (SpecRT).                       *)

\* Bit n of the stream in out's buffer: bit n % 8 of byte n \div 8,
\* counted from the most significant.
StreamBit(n) == (Byte(n \div 8) \div Pow2(7 - (n % 8))) % 2

\* The 8 bits of the stream from bit n on, as a byte.
UnitAt(n) ==
    128 * StreamBit(n) + 64 * StreamBit(n + 1) + 32 * StreamBit(n + 2)
        + 16 * StreamBit(n + 3) + 8 * StreamBit(n + 4) + 4 * StreamBit(n + 5)
        + 2 * StreamBit(n + 6) + StreamBit(n + 7)

\* The two marker bits of a unit.
Marker(unit) == unit \div 64

\* Stream bits at which the k-th written value starts and ends.
StartOf(k) == 8 * StartPosition(k) + StartBit(k)
EndOf(k) == 8 * wrote[k].position + wrote[k].byte_pos

\* C14: in the aligned stream a zero value is one bit of value 0; a
\* non-zero value is n >= 1 consecutive 8-bit units, the first n - 1 with
\* marker 11 and the last with marker 10, so its first bit is 1.
C14_StreamFormat ==
    phase # "write" =>
        \A k \in DOMAIN wrote :
            IF wrote[k].v = Zero32
            THEN /\ EndOf(k) = StartOf(k) + 1
                 /\ StreamBit(StartOf(k)) = 0
            ELSE LET n == wrote[k].units IN
                 /\ n >= 1
                 /\ EndOf(k) = StartOf(k) + 8 * n
                 /\ StreamBit(StartOf(k)) = 1
                 /\ \A j \in 0..(n - 1) :
                        Marker(UnitAt(StartOf(k) + 8 * j)) = IF j < n - 1 THEN 3 ELSE 2

\* 0x1000, three units, was written at a non-zero bit offset between two
\* zeros, and the stream was aligned.
C14_Witness ==
    /\ phase = "aligned"
    /\ \E k \in DOMAIN wrote :
          /\ wrote[k].v = U32(4096)
          /\ wrote[k].units = 3
          /\ StartBit(k) # 0
          /\ k > 1 /\ wrote[k - 1].v = Zero32
          /\ k < Len(wrote) /\ wrote[k + 1].v = Zero32

----------------------------------------------------------------------------
(* Units of one value (SpecEnc).                                           *)

\* C15: write_int(v) with v in 1..63 on a byte-aligned stream stores
\* exactly one byte, 0x80 | v, at the old position, advances position by
\* one and leaves no pending bits.
C15_OneByteBelow64 ==
    (last.op = "write_int" /\ BitLength(last.val) \in 1..6 /\ last.pre.byte_pos = 0) =>
        /\ Len(out.slog) = 1
        /\ out.slog[1].idx = last.pre.position
        /\ out.slog[1].byte = BitOr(128, Low6(last.val))
        /\ out.buffer[last.pre.position + 1] = BitOr(128, Low6(last.val))
        /\ out.position = last.pre.position + 1
        /\ out.byte_pos = 0
        /\ out.curr_byte = 0

\* write_int(1) on the fresh stream stored the byte 0x81.
C15_Witness ==
    /\ last.op = "write_int"
    /\ last.val = U32(1)
    /\ last.pre.position = 0
    /\ last.pre.byte_pos = 0
    /\ out.position = 1
    /\ out.buffer[1] = 129

\* Number of units of a non-zero value: ceil(bitlength / 6).
UnitCount(v) == (BitLength(v) + 5) \div 6

\* The payloads of the n units that start at stream bit start, joined
\* most significant first below acc.
RECURSIVE Payloads(_, _, _)
Payloads(start, n, acc) ==
    IF n = 0 THEN acc
    ELSE Payloads(start + 8, n - 1,
                  Or32(Shl32(acc, 6), U32(UnitAt(start) % 64)))

\* C20: a non-zero value v takes exactly ceil(bitlength(v) / 6) units;
\* every 6-bit group from the highest non-zero one down is a unit, a zero
\* group among them included, with marker 11 except for the last; and
\* the payloads joined most significant first are v.
C20_UnitCount ==
    phase = "aligned" =>
        \A k \in DOMAIN wrote :
            wrote[k].v # Zero32 =>
                LET v == wrote[k].v
                    n == UnitCount(v)
                IN  /\ wrote[k].units = n
                    /\ EndOf(k) = StartOf(k) + 8 * n
                    /\ \A j \in 0..(n - 1) :
                           UnitAt(StartOf(k) + 8 * j) =
                               (IF j < n - 1 THEN 192 ELSE 128)
                                   + Low6(Shr32(v, 6 * (n - 1 - j)))
                    /\ Payloads(StartOf(k), n, Zero32) = v

\* 0x1000 at a non-zero bit offset: the units C1, C0, 80, the last two
\* with a zero payload.
C20_Witness ==
    /\ phase = "aligned"
    /\ \E k \in DOMAIN wrote :
          /\ wrote[k].v = U32(4096)
          /\ StartBit(k) # 0
          /\ wrote[k].units = 3
          /\ UnitAt(StartOf(k)) = 193
          /\ UnitAt(StartOf(k) + 8) = 192
          /\ UnitAt(StartOf(k) + 16) = 128

----------------------------------------------------------------------------
(* The reader against the writer (SpecRT).                                 *)

\* C16: reading back all values of the aligned buffer accesses no index
\* at or beyond the writer's final position.
C16_ReaderStaysBelowFinalPosition ==
    phase = "read" => \A i \in rd.touched : i < out.position

\* C17: after the k-th read_int the reader's position and bit offset are
\* the writer's right after the k-th write_int.
C17_CursorsAgree ==
    \A k \in DOMAIN got :
        /\ ~got[k].ran_off
        /\ got[k].position = wrote[k].position
        /\ got[k].byte_pos = wrote[k].byte_pos

\* Every value was read back; one of them is 0xFFFFFFFF started at a
\* non-zero bit offset, another a zero that completed a byte.
C17_Witness ==
    /\ phase = "read"
    /\ Len(got) = Len(wrote)
    /\ \E k \in DOMAIN got :
          wrote[k].v = Ones32 /\ StartBit(k) # 0 /\ got[k].byte_pos # 0
    /\ \E k \in DOMAIN got :
          wrote[k].v = Zero32 /\ wrote[k].byte_pos = 0 /\ got[k].position > 0

----------------------------------------------------------------------------
(* Invariants of the write stream (SpecCursor, Spec).                      *)

\* C18: the bit offset is in 0..7 and the pending byte is below
\* 2^(bit offset); it is 0 when the stream is byte-aligned.
C18_BitCursor ==
    /\ out.byte_pos \in 0..7
    /\ out.curr_byte \in 0..(Pow2(out.byte_pos) - 1)
    /\ out.byte_pos = 0 => out.curr_byte = 0

\* write_int(0xFF) at bit offset 7 left seven pending bits, the low seven
\* of its last unit 0xBF.
C18_Witness ==
    /\ last.op = "write_int"
    /\ last.val = U32(255)
    /\ last.pre.byte_pos = 7
    /\ out.position = 2
    /\ out.byte_pos = 7
    /\ out.curr_byte = 63

\* C19: position never exceeds the capacity, and every byte is stored at
\* an index below the capacity of that moment.
C19_WithinCapacity ==
    /\ out.position \in 0..out.size
    /\ Len(out.buffer) = out.size
    /\ \A k \in DOMAIN out.slog :
           out.slog[k].idx \in 0..(out.slog[k].size - 1)

\* A typed write on a stream rolled back to its capacity grew the buffer
\* and stored its first byte at the index that was the capacity.
C19_Witness ==
    /\ prev.op = "roll_back"
    /\ last.op \in ScalarWrites
    /\ last.pre.size > 0
    /\ last.pre.position = last.pre.size
    /\ out.glog # <<>>
    /\ out.slog # <<>>
    /\ out.slog[1].idx = last.pre.size
    /\ out.slog[1].size > last.pre.size

----------------------------------------------------------------------------
(* write_byte_impl and position(), call by call (SpecEnc).                 *)

\* The units write_int passes to write_byte_impl for a non-zero v, in
\* order: 0xC0 | group for each group above the lowest, 0x80 | (v & 0x3f).
UnitsOf(v) ==
    LET n == UnitCount(v) IN
    [j \in 1..n |-> (IF j < n THEN 192 ELSE 128) + Low6(Shr32(v, 6 * (n - j)))]

\* The pending byte after the j-th unit of the latest write_int, which
\* started at bit offset b: what the stream held before for j = 0, the
\* low b bits of the unit otherwise.
PendingAfter(j, b) ==
    IF j = 0 THEN last.pre.curr_byte ELSE UnitsOf(last.val)[j] % Pow2(b)

\* C21: each unit g written at bit offset b with pending byte a stores
\* one byte, ((a << (8 - b)) | (g >> b)) mod 256, at the next index,
\* leaves the low b bits of g pending and leaves b as it was; at b = 0
\* the byte is g and nothing is pending.
C21_WriteByteImpl ==
    (last.op = "write_int" /\ last.val # Zero32) =>
        LET b == last.pre.byte_pos
            g == UnitsOf(last.val)
            n == UnitCount(last.val)
        IN  /\ Len(out.slog) = n
            /\ \A j \in 1..n :
                   /\ out.slog[j].idx = last.pre.position + j - 1
                   /\ out.slog[j].byte =
                          BitOr(Shl(PendingAfter(j - 1, b), 8 - b), Shr(g[j], b)) % 256
                   /\ b = 0 => out.slog[j].byte = g[j]
            /\ out.position = last.pre.position + n
            /\ out.curr_byte = g[n] % Pow2(b)
            /\ out.byte_pos = b
            /\ b = 0 => out.curr_byte = 0

\* 0xFFFFFFFF was written at bit offset 7: six bytes, each made of seven
\* pending bits and the top bit of the next unit (the second is 0x87),
\* and the low seven bits of 0xBF left pending.
C21_Witness ==
    /\ last.op = "write_int"
    /\ last.val = Ones32
    /\ last.pre.byte_pos = 7
    /\ Len(out.slog) = 6
    /\ out.slog[2].byte = 135
    /\ out.curr_byte = 63
    /\ out.byte_pos = 7

\* C22: position() at bit offset b in 1..7 with pending byte a stores one
\* byte, a << (8 - b), at index position, advances position by one and
\* leaves nothing pending at bit offset 0; at b = 0 it changes nothing.
\* Its result is the position it leaves.
C22_PositionFlush ==
    last.op = "position" =>
        LET a == last.pre.curr_byte
            b == last.pre.byte_pos
        IN  IF b = 0
            THEN /\ Core(out) = last.pre
                 /\ out.slog = <<>>
            ELSE /\ b \in 1..7
                 /\ Len(out.slog) = 1
                 /\ out.slog[1].idx = last.pre.position
                 /\ out.slog[1].byte = Shl(a, 8 - b)
                 /\ out.slog[1].byte % Pow2(8 - b) = 0
                 /\ out.buffer[last.pre.position + 1] = Shl(a, 8 - b)
                 /\ out.position = last.pre.position + 1
                 /\ out.curr_byte = 0
                 /\ out.byte_pos = 0

\* position() flushed the three pending bits 100, the low bit of a unit
\* written at bit offset 1 followed by two zeros, as the byte 0x80.
C22_Witness ==
    /\ last.op = "position"
    /\ last.pre.byte_pos = 3
    /\ last.pre.curr_byte = 4
    /\ Len(out.slog) = 1
    /\ out.slog[1].byte = 128
    /\ out.byte_pos = 0

----------------------------------------------------------------------------
(* Length of the bit stream (SpecEnc).                                     *)

\* Z: the number of zero values among the first k written.
ZerosUpTo(k) == Cardinality({i \in 1..k : wrote[i].v = Zero32})

\* U: the number of units stored for the non-zero values among the first
\* k written.
RECURSIVE UnitsUpTo(_)
UnitsUpTo(k) ==
    IF k = 0 THEN 0
    ELSE UnitsUpTo(k - 1) + (IF wrote[k].v # Zero32 THEN wrote[k].units ELSE 0)

\* Bits written by the first k values: Z + 8 * U.
BitsUpTo(k) == ZerosUpTo(k) + 8 * UnitsUpTo(k)

\* C23: after every value the stream is Z + 8U bits long: position is
\* floor((Z + 8U) / 8) and the bit offset (Z + 8U) mod 8; after align
\* position is ceil((Z + 8U) / 8).  In the aligned buffer every value
\* sits at the bit where the previous one ended, a zero as one 0 bit and
\* a non-zero value as its units, and the padding bits are 0.
C23_StreamLength ==
    /\ \A k \in DOMAIN wrote :
           /\ wrote[k].position = BitsUpTo(k) \div 8
           /\ wrote[k].byte_pos = BitsUpTo(k) % 8
    /\ phase = "write" =>
           /\ out.position = BitsUpTo(Len(wrote)) \div 8
           /\ out.byte_pos = BitsUpTo(Len(wrote)) % 8
    /\ phase = "aligned" =>
           /\ out.position = (BitsUpTo(Len(wrote)) + 7) \div 8
           /\ out.byte_pos = 0
           /\ \A k \in DOMAIN wrote :
                  IF wrote[k].v = Zero32
                  THEN StreamBit(BitsUpTo(k - 1)) = 0
                  ELSE \A j \in 1..wrote[k].units :
                          UnitAt(BitsUpTo(k - 1) + 8 * (j - 1)) = UnitsOf(wrote[k].v)[j]
           /\ \A n \in BitsUpTo(Len(wrote))..(8 * out.position - 1) :
                  StreamBit(n) = 0

\* Three zeros, 0x1000 and two zeros more, aligned: Z = 5, U = 3, 29 bits,
\* position 4.
C23_Witness ==
    /\ phase = "aligned"
    /\ Len(wrote) = 6
    /\ wrote[4].v = U32(4096)
    /\ ZerosUpTo(6) = 5
    /\ UnitsUpTo(6) = 3
    /\ wrote[6].position = 3
    /\ wrote[6].byte_pos = 5
    /\ out.position = 4

----------------------------------------------------------------------------
(* What one read_int consumes (SpecRT).                                    *)

\* Stream bits at which the k-th read_int starts and ends.
ReadStart(k) ==
    IF k = 1 THEN 0 ELSE 8 * got[k - 1].position + got[k - 1].byte_pos
ReadEnd(k) == 8 * got[k].position + got[k].byte_pos

\* C24: every read_int returns without leaving the buffer; for a zero it
\* consumes one bit and no unit; for a non-zero value it consumes the
\* units the writer stored for it, at most 6, the last of which is the
\* first with marker 10.
C24_ReadConsumes ==
    \A k \in DOMAIN got :
        /\ ~got[k].ran_off
        /\ IF wrote[k].v = Zero32
           THEN /\ got[k].units = 0
                /\ ReadEnd(k) = ReadStart(k) + 1
           ELSE LET n == got[k].units IN
                /\ n = wrote[k].units
                /\ n \in 1..6
                /\ ReadEnd(k) = ReadStart(k) + 8 * n
                /\ Marker(UnitAt(ReadStart(k) + 8 * (n - 1))) = 2
                /\ \A j \in 0..(n - 2) : Marker(UnitAt(ReadStart(k) + 8 * j)) # 2

\* A zero, 0xFFFFFFFF in six units at bit offset 1 and another zero were
\* all read back.
C24_Witness ==
    /\ phase = "read"
    /\ Len(got) = 3
    /\ wrote[1].v = Zero32
    /\ wrote[2].v = Ones32
    /\ wrote[3].v = Zero32
    /\ got[2].units = 6
    /\ got[3].units = 0
    /\ ReadEnd(3) = 50

====
